---- MODULE Spec2Model ----
(***************************************************************************)
(* Persistence layer of LibIA (app/src-tauri): the Document entity, its     *)
(* bincode encoding, and the repository operations of services/database.rs *)
(* over a sled store (one "documents" tree, explicit flush after every      *)
(* mutating call), with the processes and shared handles that use it.       *)
(***************************************************************************)
EXTENDS Integers, Sequences, FiniteSets, TLC

(***************************************************************************)
(* Bounds of the model.                                                     *)
(***************************************************************************)
\* Arc<sled::Db> values alive at once, over all processes
MaxHandles == 2
\* engine instance slots (sled::Db values alive at once, over all processes)
MaxInst == 2
\* operating-system processes using the storage directory
MaxProcs == 2
\* threads of the one process that call the repository concurrently
MaxThreads == 2

Procs == 1..MaxProcs
Threads == 1..MaxThreads
HandleIds == 1..MaxHandles
InstIds == 1..MaxInst

(***************************************************************************)
(* Strings are sequences of Unicode scalar values; as_bytes() is UTF-8.     *)
(***************************************************************************)
\* String::as_bytes / str::as_bytes: the UTF-8 encoding of one scalar value
Utf8Char(c) ==
    IF c < 128 THEN <<c>>
    ELSE IF c < 2048 THEN <<192 + (c \div 64), 128 + (c % 64)>>
    ELSE IF c < 65536 THEN <<224 + (c \div 4096), 128 + ((c \div 64) % 64), 128 + (c % 64)>>
    ELSE <<240 + (c \div 262144), 128 + ((c \div 4096) % 64),
           128 + ((c \div 64) % 64), 128 + (c % 64)>>

RECURSIVE as_bytes(_)
as_bytes(s) == IF s = <<>> THEN <<>> ELSE Utf8Char(Head(s)) \o as_bytes(Tail(s))

IsCont(b) == b >= 128 /\ b < 192

\* length of the UTF-8 sequence a lead byte announces (0: not a lead byte)
Utf8Len(b) ==
    IF b < 128 THEN 1
    ELSE IF b >= 194 /\ b < 224 THEN 2
    ELSE IF b >= 224 /\ b < 240 THEN 3
    ELSE IF b >= 240 /\ b < 245 THEN 4
    ELSE 0

\* the scalar value of the n-byte sequence at the head of bs
Utf8Scalar(bs, n) ==
    IF n = 1 THEN bs[1]
    ELSE IF n = 2 THEN (bs[1] - 192) * 64 + (bs[2] - 128)
    ELSE IF n = 3 THEN (bs[1] - 224) * 4096 + (bs[2] - 128) * 64 + (bs[3] - 128)
    ELSE (bs[1] - 240) * 262144 + (bs[2] - 128) * 4096 + (bs[3] - 128) * 64 + (bs[4] - 128)

\* overlong encodings, surrogates and values past U+10FFFF are rejected
Utf8Bad(c, n) ==
    \/ (n = 3 /\ (c < 2048 \/ (c >= 55296 /\ c < 57344)))
    \/ (n = 4 /\ (c < 65536 \/ c > 1114111))

\* String::from_utf8 as bincode's string visitor uses it: [ok, val], ok = FALSE
\* when the bytes are not well-formed UTF-8
Utf8Fail == [ok |-> FALSE, val |-> <<>>]
Utf8Cons(c, rest) == IF ~rest.ok THEN Utf8Fail ELSE [ok |-> TRUE, val |-> <<c>> \o rest.val]

RECURSIVE from_utf8(_)
Utf8Step(bs, n) ==
    IF n = 0 \/ Len(bs) < n THEN Utf8Fail
    ELSE IF \E i \in 2..n : ~IsCont(bs[i]) THEN Utf8Fail
    ELSE IF Utf8Bad(Utf8Scalar(bs, n), n) THEN Utf8Fail
    ELSE Utf8Cons(Utf8Scalar(bs, n), from_utf8(SubSeq(bs, n + 1, Len(bs))))
from_utf8(bs) ==
    IF bs = <<>> THEN [ok |-> TRUE, val |-> <<>>] ELSE Utf8Step(bs, Utf8Len(bs[1]))

(***************************************************************************)
(* models/document.rs                                                       *)
(***************************************************************************)
\* Document::new: created_at is the wall clock (seconds), is_indexed false
Document_new(id, name, file_path, page_count, now) ==
    [id |-> id, name |-> name, file_path |-> file_path,
     page_count |-> page_count, created_at |-> now, is_indexed |-> FALSE]

\* a marking that clears the flag
mark_as_unindexed(doc) == [doc EXCEPT !.is_indexed = FALSE]
\* Document::mark_as_indexed
mark_as_indexed(doc) == [doc EXCEPT !.is_indexed = TRUE]

(***************************************************************************)
(* models/chunk.rs                                                          *)
(***************************************************************************)
\* Option<String>
NoMeta == [some |-> FALSE, val |-> <<>>]
SomeMeta(m) == [some |-> TRUE, val |-> m]

\* str::len: the number of bytes of the text
bytes_len(text) == Len(as_bytes(text))
\* text.chars().count(): the scalar values of the UTF-8 buffer, one for every
\* byte that is not a continuation byte
chars_count(text) ==
    Cardinality({i \in 1..Len(as_bytes(text)) : ~IsCont(as_bytes(text)[i])})

\* Chunk::new
Chunk_new(id, document_id, text, index, page_number) ==
    [id |-> id, document_id |-> document_id, text |-> text, index |-> index,
     page_number |-> page_number, char_count |-> chars_count(text), metadata |-> NoMeta]

\* Chunk::with_metadata
with_metadata(c, metadata) == [c EXCEPT !.metadata = SomeMeta(metadata)]

(***************************************************************************)
(* bincode 1.x (fixed-width little-endian integers, u64 length prefixes).   *)
(***************************************************************************)
\* width of usize / u64 on the wire, in bytes
U64Bytes == 8

\* little-endian bytes of n in w bytes.  The model's integers are below 2^31, so
\* the bytes past the fourth are zero; a decoded value that does not fit is
\* read as the largest integer of the model.
LE(n, w) == [i \in 1..w |-> IF i > 4 THEN 0 ELSE (n \div (256 ^ (i - 1))) % 256]
FromLE(bs) ==
    IF (\E i \in 5..Len(bs) : bs[i] # 0) \/ bs[4] >= 128 THEN 2147483647
    ELSE bs[1] + 256 * bs[2] + 65536 * bs[3] + 16777216 * bs[4]

SerU64(n) == LE(n, U64Bytes)
SerBytes(b) == SerU64(Len(b)) \o b
SerString(s) == SerBytes(as_bytes(s))
SerBool(b) == IF b THEN <<1>> ELSE <<0>>
\* an Option writer that writes nothing for None
SerOptStringSkipNone(o) == IF o.some THEN <<1>> \o SerString(o.val) ELSE <<>>
\* Option<String>: a tag byte, then the value when there is one
SerOptString(o) == IF o.some THEN <<1>> \o SerString(o.val) ELSE <<0>>

\* a writer whose field order differs from the reader's (name and file_path swapped)
SerializeSwapped(doc) ==
    SerString(doc.id) \o SerString(doc.file_path) \o SerString(doc.name)
        \o SerU64(doc.page_count) \o SerU64(doc.created_at) \o SerBool(doc.is_indexed)

\* bincode::serialize(&Document): the fields in declaration order
Serialize(doc) ==
    SerString(doc.id) \o SerString(doc.name) \o SerString(doc.file_path)
        \o SerU64(doc.page_count) \o SerU64(doc.created_at) \o SerBool(doc.is_indexed)

\* bincode::serialize(&Chunk): the fields in declaration order
SerializeChunk(c) ==
    SerString(c.id) \o SerString(c.document_id) \o SerString(c.text)
        \o SerU64(c.index) \o SerU64(c.page_number) \o SerU64(c.char_count)
        \o SerOptString(c.metadata)

\* Readers return [ok, val, rest]; ok = FALSE is a bincode error.
ReadFail == [ok |-> FALSE, val |-> 0, rest |-> <<>>]
DeU64(bs) ==
    IF Len(bs) < U64Bytes THEN ReadFail
    ELSE [ok |-> TRUE, val |-> FromLE(SubSeq(bs, 1, U64Bytes)),
          rest |-> SubSeq(bs, U64Bytes + 1, Len(bs))]
\* the string of l.val bytes that follows its length prefix l
DeStringText(s, l) ==
    IF ~s.ok THEN ReadFail
    ELSE [ok |-> TRUE, val |-> s.val, rest |-> SubSeq(l.rest, l.val + 1, Len(l.rest))]
DeStringBody(l) ==
    IF ~l.ok THEN ReadFail
    ELSE IF Len(l.rest) < l.val THEN ReadFail
    ELSE DeStringText(from_utf8(SubSeq(l.rest, 1, l.val)), l)
DeString(bs) == DeStringBody(DeU64(bs))
DeBool(bs) ==
    IF bs = <<>> THEN ReadFail
    ELSE IF bs[1] \notin {0, 1} THEN ReadFail
    ELSE [ok |-> TRUE, val |-> (bs[1] = 1), rest |-> Tail(bs)]

\* Option<String>: tag 0 is None, tag 1 is Some, any other tag an error
DeOptSome(r) ==
    IF ~r.ok THEN ReadFail ELSE [ok |-> TRUE, val |-> SomeMeta(r.val), rest |-> r.rest]
DeOptString(bs) ==
    IF bs = <<>> THEN ReadFail
    ELSE IF bs[1] = 0 THEN [ok |-> TRUE, val |-> NoMeta, rest |-> Tail(bs)]
    ELSE IF bs[1] = 1 THEN DeOptSome(DeString(Tail(bs)))
    ELSE ReadFail

\* the wire types of Document's and Chunk's fields, in declaration order
DocFields == <<"string", "string", "string", "u64", "u64", "bool">>
ChunkFields == <<"string", "string", "string", "u64", "u64", "u64", "opt_string">>
ReadField(kind, bs) ==
    IF kind = "string" THEN DeString(bs)
    ELSE IF kind = "u64" THEN DeU64(bs)
    ELSE IF kind = "opt_string" THEN DeOptString(bs)
    ELSE DeBool(bs)

\* the derived visitor: reads the fields one after the other, stops at the first error
RECURSIVE ReadFields(_, _, _)
ReadNext(kinds, f, acc) ==
    IF ~f.ok THEN [ok |-> FALSE, vals |-> <<>>]
    ELSE ReadFields(Tail(kinds), f.rest, Append(acc, f.val))
ReadFields(kinds, bs, acc) ==
    IF kinds = <<>> THEN [ok |-> TRUE, vals |-> acc]
    ELSE ReadNext(kinds, ReadField(Head(kinds), bs), acc)

\* bincode::deserialize::<Document>(bytes): [ok, doc]; trailing bytes are allowed
NoDoc == [id |-> <<>>, name |-> <<>>, file_path |-> <<>>,
          page_count |-> 0, created_at |-> 0, is_indexed |-> FALSE]
DeFail == [ok |-> FALSE, doc |-> NoDoc]
DocOfFields(r) ==
    IF ~r.ok THEN DeFail
    ELSE [ok |-> TRUE,
          doc |-> [id |-> r.vals[1], name |-> r.vals[2], file_path |-> r.vals[3],
                   page_count |-> r.vals[4], created_at |-> r.vals[5],
                   is_indexed |-> r.vals[6]]]
Deserialize(bs) == DocOfFields(ReadFields(DocFields, bs, <<>>))

\* bincode::deserialize::<Chunk>(bytes): [ok, chunk]
NoChunk == [id |-> <<>>, document_id |-> <<>>, text |-> <<>>, index |-> 0,
            page_number |-> 0, char_count |-> 0, metadata |-> NoMeta]
ChunkOfFields(r) ==
    IF ~r.ok THEN [ok |-> FALSE, chunk |-> NoChunk]
    ELSE [ok |-> TRUE,
          chunk |-> [id |-> r.vals[1], document_id |-> r.vals[2], text |-> r.vals[3],
                     index |-> r.vals[4], page_number |-> r.vals[5],
                     char_count |-> r.vals[6], metadata |-> r.vals[7]]]
DeserializeChunk(bs) == ChunkOfFields(ReadFields(ChunkFields, bs, <<>>))

(***************************************************************************)
(* Values of the interface: Option, Result.                                 *)
(***************************************************************************)
None == [some |-> FALSE, val |-> NoDoc]
Some(d) == [some |-> TRUE, val |-> d]
NoArg == [some |-> FALSE, val |-> ""]
SomeArg(s) == [some |-> TRUE, val |-> s]
Ok(v) == [ok |-> TRUE, val |-> v, err |-> ""]
Err(e, v) == [ok |-> FALSE, val |-> v, err |-> e]

(***************************************************************************)
(* The callers' inputs.                                                     *)
(***************************************************************************)
\* document ids: "a" and "ñ" (one scalar value, two bytes as a key)
Ids == {<<97>>, <<241>>}
\* constructor arguments [name, file_path, page_count] and the clock at the call
NewArgs == {[name |-> <<120>>, file_path |-> <<47, 112>>, page_count |-> 1, now |-> 1],
            [name |-> <<241, 122>>, file_path |-> <<47, 113, 114>>, page_count |-> 2, now |-> 2]}
\* the documents a caller can hold: built by Document::new, possibly marked
Fresh == {Document_new(id, a.name, a.file_path, a.page_count, a.now) : id \in Ids, a \in NewArgs}
Docs == {f \in Fresh : f.created_at = 1}
            \cup {mark_as_indexed(f) : f \in {g \in Fresh : g.created_at = 2}}
\* chunk texts: "", "a", " ", "ñ" (2 bytes), "€a" (3 + 1 bytes), "a😀" (1 + 4 bytes)
Texts == {<<>>, <<97>>, <<32>>, <<241>>, <<8364, 97>>, <<97, 128512>>}
\* constructor arguments of Chunk::new
ChunkArgs == {[id |-> <<99>>, document_id |-> id, text |-> t, index |-> i, page_number |-> 1] :
                  id \in Ids, t \in Texts, i \in {0, 1}}
\* metadata strings: "{}" and "é"
Metas == {<<123, 125>>, <<233>>}
\* app_name and db_subdir arguments of get_db_path / init_db
AppArgs == {NoArg}
SubArgs == {NoArg, SomeArg("sled_db")}
\* keys a direct user of the engine writes under: the ids' keys
RawKeys == {as_bytes(id) : id \in Ids}
\* a well-formed record, for the values below
RawDoc == Document_new(<<97>>, <<120>>, <<47, 112>>, 1, 1)
\* values that were not written by insert_document: a record cut short, a record
\* whose is_indexed byte is not 0 or 1, and a record followed by one more byte
RawValues == {SubSeq(Serialize(RawDoc), 1, Len(Serialize(RawDoc)) - 1),
              SubSeq(Serialize(RawDoc), 1, Len(Serialize(RawDoc)) - 1) \o <<2>>,
              Serialize(RawDoc) \o <<0>>}

(***************************************************************************)
(* services/database.rs: storage location.                                  *)
(***************************************************************************)
\* default_app_name: env!("CARGO_PKG_NAME")
default_app_name == "libAi"
\* dirs::data_local_dir() (or its fallbacks), as a path of components
BaseDir == <<"data_local_dir">>

\* get_db_dir
get_db_dir(app_name) ==
    BaseDir \o <<IF app_name.some THEN app_name.val ELSE default_app_name>>

\* the path get_db_path computes (before it creates the directory)
DbPathOf(app_name, db_subdir) ==
    get_db_dir(app_name) \o <<IF db_subdir.some THEN db_subdir.val ELSE "sled_db">>

DbPaths == {DbPathOf(a, s) : a \in AppArgs, s \in SubArgs}

\* fs::create_dir_all: the directory and every missing ancestor
create_dir_all(ds, path) == ds \cup {SubSeq(path, 1, n) : n \in 1..Len(path)}

\* a get_db_path that creates the directory with fs::create_dir, which fails when
\* the directory exists
get_db_path_create_dir(ds, app_name, db_subdir, fault) ==
    IF fault = "create_dir" \/ DbPathOf(app_name, db_subdir) \in ds
    THEN [ret |-> Err("failed to create db dir", <<>>), dirs |-> ds]
    ELSE [ret |-> Ok(DbPathOf(app_name, db_subdir)),
          dirs |-> create_dir_all(ds, DbPathOf(app_name, db_subdir))]
\* get_db_path: [ret, dirs]
get_db_path(ds, app_name, db_subdir, fault) ==
    IF fault = "create_dir"
    THEN [ret |-> Err("failed to create db dir", <<>>), dirs |-> ds]
    ELSE [ret |-> Ok(DbPathOf(app_name, db_subdir)),
          dirs |-> create_dir_all(ds, DbPathOf(app_name, db_subdir))]

(***************************************************************************)
(* The engine (sled): a store is a set of named trees, a tree a map from    *)
(* key bytes to value bytes.                                                *)
(***************************************************************************)
EmptyTree == [k \in {} |-> <<>>]
DefaultTree == "__sled__default"
\* a store just created by sled::open
FreshStore == [t \in {DefaultTree} |-> EmptyTree]

\* Db::open_tree: the tree is created when it does not exist
open_tree(store, name) ==
    IF name \in DOMAIN store THEN store
    ELSE [t \in DOMAIN store \cup {name} |-> IF t = name THEN EmptyTree ELSE store[t]]

\* an insert that patches the stored record: every byte of the new value but the
\* last, which it keeps from the old record
tree_insert_patch(store, name, k, v) ==
    [store EXCEPT ![name] = [x \in DOMAIN store[name] \cup {k} |->
                                 IF x # k THEN store[name][x]
                                 ELSE IF k \in DOMAIN store[name]
                                 THEN SubSeq(v, 1, Len(v) - 1)
                                          \o <<store[name][k][Len(store[name][k])]>>
                                 ELSE v]]
\* an insert that keeps the record already stored under the key
tree_insert_keep(store, name, k, v) ==
    [store EXCEPT ![name] = [x \in DOMAIN store[name] \cup {k} |->
                                 IF x \in DOMAIN store[name] THEN store[name][x] ELSE v]]
\* Tree::insert
tree_insert(store, name, k, v) ==
    [store EXCEPT ![name] = [x \in DOMAIN store[name] \cup {k} |->
                                 IF x = k THEN v ELSE store[name][x]]]
\* a remove that empties the tree
tree_clear(store, name, k) == [store EXCEPT ![name] = EmptyTree]
\* a remove that leaves the tree as it is
tree_remove_noop(store, name, k) == store
\* Tree::remove
tree_remove(store, name, k) ==
    [store EXCEPT ![name] = [x \in DOMAIN store[name] \ {k} |-> store[name][x]]]

\* byte-wise lexicographic order of keys: the order of Tree::iter
RECURSIVE LexLess(_, _)
LexLess(a, b) ==
    IF a = <<>> THEN b # <<>>
    ELSE IF b = <<>> THEN FALSE
    ELSE IF a[1] # b[1] THEN a[1] < b[1]
    ELSE LexLess(Tail(a), Tail(b))

RECURSIVE SortedKeys(_)
LeastKey(ks) == CHOOSE k \in ks : \A o \in ks \ {k} : LexLess(k, o)
KeysFrom(m, ks) == <<m>> \o SortedKeys(ks \ {m})
SortedKeys(ks) == IF ks = {} THEN <<>> ELSE KeysFrom(LeastKey(ks), ks)

(***************************************************************************)
(* services/database.rs: the repository, as functions of the engine's       *)
(* in-memory store `mem`.  `fault` names the engine step that fails in this *)
(* call ("none": every step succeeds).  Each returns the call's result, the *)
(* store afterwards and what the call did about durability.                 *)
(***************************************************************************)
DocTree == "documents"

\* open_documents_tree: [ok, mem]
open_documents_tree(mem, fault) ==
    IF fault = "open_tree" THEN [ok |-> FALSE, mem |-> mem]
    ELSE [ok |-> TRUE, mem |-> open_tree(mem, DocTree)]

\* an insert that returns Ok without flushing
InsertNoFlush(m2, fault) == [ret |-> Ok(<<>>), mem |-> m2, flush |-> "none"]
\* insert_document, from tree.insert on: [ret, mem, flush]
InsertAndFlush(m2, fault) ==
    IF fault = "flush" THEN [ret |-> Err("flush error", <<>>), mem |-> m2, flush |-> "failed"]
    ELSE [ret |-> Ok(<<>>), mem |-> m2, flush |-> "ok"]
\* an insert that stores the record under the document's name
InsertIntoByName(t, doc, fault) ==
    IF ~t.ok
    THEN [ret |-> Err("failed to open documents tree", <<>>), mem |-> t.mem, flush |-> "none"]
    ELSE IF fault = "serialize"
    THEN [ret |-> Err("serialize error", <<>>), mem |-> t.mem, flush |-> "none"]
    ELSE IF fault = "insert"
    THEN [ret |-> Err("sled insert error", <<>>), mem |-> t.mem, flush |-> "none"]
    ELSE InsertAndFlush(tree_insert(t.mem, DocTree, as_bytes(doc.name), Serialize(doc)), fault)
\* an insert that puts the key into the tree before it serializes, and leaves it
\* there with no bytes when serialization fails
InsertIntoWriteFirst(t, doc, fault) ==
    IF ~t.ok
    THEN [ret |-> Err("failed to open documents tree", <<>>), mem |-> t.mem, flush |-> "none"]
    ELSE IF fault = "serialize"
    THEN [ret |-> Err("serialize error", <<>>),
          mem |-> tree_insert(t.mem, DocTree, as_bytes(doc.id), <<>>), flush |-> "none"]
    ELSE IF fault = "insert"
    THEN [ret |-> Err("sled insert error", <<>>), mem |-> t.mem, flush |-> "none"]
    ELSE InsertAndFlush(tree_insert(t.mem, DocTree, as_bytes(doc.id), Serialize(doc)), fault)
InsertInto(t, doc, fault) ==
    IF ~t.ok
    THEN [ret |-> Err("failed to open documents tree", <<>>), mem |-> t.mem, flush |-> "none"]
    ELSE IF fault = "serialize"
    THEN [ret |-> Err("serialize error", <<>>), mem |-> t.mem, flush |-> "none"]
    ELSE IF fault = "insert"
    THEN [ret |-> Err("sled insert error", <<>>), mem |-> t.mem, flush |-> "none"]
    ELSE InsertAndFlush(tree_insert(t.mem, DocTree, as_bytes(doc.id), Serialize(doc)), fault)
\* insert_document: [ret, mem, flush]
insert_document(mem, doc, fault) == InsertInto(open_documents_tree(mem, fault), doc, fault)

\* a lookup that reports a missing record as an error
GetFromNotFoundErr(t, id, fault) ==
    IF ~t.ok THEN [ret |-> Err("failed to open documents tree", None), mem |-> t.mem]
    ELSE IF fault = "get" THEN [ret |-> Err("sled get error", None), mem |-> t.mem]
    ELSE IF as_bytes(id) \in DOMAIN t.mem[DocTree]
         THEN [ret |-> Ok(Some(Deserialize(t.mem[DocTree][as_bytes(id)]).doc)), mem |-> t.mem]
         ELSE [ret |-> Err("not found", None), mem |-> t.mem]
\* a lookup that reports bytes it cannot decode as a missing record
GetDecodedAsNone(d, t) ==
    IF ~d.ok THEN [ret |-> Ok(None), mem |-> t.mem]
    ELSE [ret |-> Ok(Some(d.doc)), mem |-> t.mem]
\* a lookup that, on bytes it cannot decode, removes from the tree every record
\* that does not decode
GetDecodedPurge(d, t) ==
    IF ~d.ok
    THEN [ret |-> Err("deseralization error", None),
          mem |-> [t.mem EXCEPT ![DocTree] =
                      [k \in {x \in DOMAIN @ : Deserialize(@[x]).ok} |-> @[k]]]]
    ELSE [ret |-> Ok(Some(d.doc)), mem |-> t.mem]
\* get_document, from the match on the bytes found: [ret, mem]
GetDecoded(d, t) ==
    IF ~d.ok THEN [ret |-> Err("deseralization error", None), mem |-> t.mem]
    ELSE [ret |-> Ok(Some(d.doc)), mem |-> t.mem]
GetFrom(t, id, fault) ==
    IF ~t.ok THEN [ret |-> Err("failed to open documents tree", None), mem |-> t.mem]
    ELSE IF fault = "get" THEN [ret |-> Err("sled get error", None), mem |-> t.mem]
    ELSE IF as_bytes(id) \in DOMAIN t.mem[DocTree]
         THEN GetDecoded(Deserialize(t.mem[DocTree][as_bytes(id)]), t)
         ELSE [ret |-> Ok(None), mem |-> t.mem]
\* get_document: [ret, mem]
get_document(mem, id, fault) == GetFrom(open_documents_tree(mem, fault), id, fault)

\* the loop of get_all_documents over the entries in iteration order: [ok, out]
RECURSIVE CollectDocs(_, _, _)
\* a listing loop that stops after its first entry
CollectFirstOnly(d, tree, keys, out) ==
    IF ~d.ok THEN [ok |-> FALSE, out |-> out] ELSE [ok |-> TRUE, out |-> Append(out, d.doc)]
\* a listing loop that leaves out an entry it cannot decode and goes on
CollectSkipBad(d, tree, keys, out) ==
    IF ~d.ok THEN CollectDocs(tree, Tail(keys), out)
    ELSE CollectDocs(tree, Tail(keys), Append(out, d.doc))
CollectNext(d, tree, keys, out) ==
    IF ~d.ok THEN [ok |-> FALSE, out |-> out]
    ELSE CollectDocs(tree, Tail(keys), Append(out, d.doc))
CollectDocs(tree, keys, out) ==
    IF keys = <<>> THEN [ok |-> TRUE, out |-> out]
    ELSE CollectNext(Deserialize(tree[Head(keys)]), tree, keys, out)

GetAllCollected(c, t) ==
    IF ~c.ok THEN [ret |-> Err("desearialize error", <<>>), mem |-> t.mem]
    ELSE [ret |-> Ok(c.out), mem |-> t.mem]
GetAllFrom(t, fault) ==
    IF ~t.ok THEN [ret |-> Err("failed to open documents tree", <<>>), mem |-> t.mem]
    ELSE IF fault = "iter" THEN [ret |-> Err("sled iter error", <<>>), mem |-> t.mem]
    ELSE GetAllCollected(CollectDocs(t.mem[DocTree], SortedKeys(DOMAIN t.mem[DocTree]), <<>>), t)
\* get_all_documents: [ret, mem]
get_all_documents(mem, fault) == GetAllFrom(open_documents_tree(mem, fault), fault)

\* a delete that returns Ok whether or not its flush succeeded
RemoveIgnoreFlush(m2, fault) ==
    [ret |-> Ok(<<>>), mem |-> m2, flush |-> IF fault = "flush" THEN "failed" ELSE "ok"]
\* delete_document, from tree.remove on: [ret, mem, flush]
RemoveAndFlush(m2, fault) ==
    IF fault = "flush" THEN [ret |-> Err("flush error", <<>>), mem |-> m2, flush |-> "failed"]
    ELSE [ret |-> Ok(<<>>), mem |-> m2, flush |-> "ok"]
DeleteFrom(t, id, fault) ==
    IF ~t.ok
    THEN [ret |-> Err("failed to open documents tree", <<>>), mem |-> t.mem, flush |-> "none"]
    ELSE IF fault = "remove"
    THEN [ret |-> Err("sled remove error", <<>>), mem |-> t.mem, flush |-> "none"]
    ELSE RemoveAndFlush(tree_remove(t.mem, DocTree, as_bytes(id)), fault)
\* delete_document: [ret, mem, flush]
delete_document(mem, id, fault) == DeleteFrom(open_documents_tree(mem, fault), id, fault)

InsertFaults == {"none", "open_tree", "serialize", "insert", "flush"}
GetFaults == {"none", "open_tree", "get"}
GetAllFaults == {"none", "open_tree", "iter"}
DeleteFaults == {"none", "open_tree", "remove", "flush"}
InitFaults == {"none", "create_dir", "open"}

(***************************************************************************)
(* State.                                                                   *)
(*  dirs     directories that exist                                         *)
(*  disk     per storage directory, the store as durable on disk            *)
(*  inst     the open engine instances (sled::Db): owner process, path, and *)
(*           the store as the instance sees it in memory                    *)
(*  handles  the live Arc<sled::Db> values, in order of creation: the       *)
(*           instance each refers to                                        *)
(*  acked    per path and id, what the callers have been told by the last   *)
(*           insert_document / delete_document of that id that returned:    *)
(*           "none" (no call yet, or delete returned Ok), "some" (insert of *)
(*           doc returned Ok), "unknown" (the call returned Err)            *)
(*  note     the last insert_document / delete_document that returned: the  *)
(*           call, its id, how it ended ("ok", "flush_failed", "err"),      *)
(*           whether a record was visible under the id before it (had), for *)
(*           a failed flush that record (prior), and whether the store was  *)
(*           closed (last handle dropped, process stopped) since (closed)   *)
(*  threads  per thread that calls the repository concurrently with others:  *)
(*           the call it is in (op, id, doc) and the statement it is at:    *)
(*           "idle", "write" (tree opened, before tree.insert/tree.remove), *)
(*           "flush" (written, before tree.flush)                           *)
(*  applied  per id, the write the engine applied last among the threads'   *)
(*           calls: "none" (no write yet, or a remove), "some" (insert of   *)
(*           doc)                                                           *)
(*  held     the entity value a caller holds ("document" or "chunk", "none" *)
(*           before it builds one) and, once it has serialized the value,   *)
(*           the bytes (wire; empty before)                                 *)
(***************************************************************************)
VARIABLES dirs, disk, inst, handles, acked, note, threads, applied, held
vars == <<dirs, disk, inst, handles, acked, note, threads, applied, held>>
\* what the sequential repository calls leave alone
aux == <<threads, applied, held>>
\* the store and what is recorded about it
repo == <<dirs, disk, inst, handles, acked, note, threads, applied>>

\* a thread that is in no call
Idle == [pc |-> "idle", op |-> "none", id |-> <<>>, doc |-> NoDoc]
\* a caller that holds no entity
NoHeld == [kind |-> "none", doc |-> NoDoc, chunk |-> NoChunk, wire |-> <<>>]
HeldDoc(d) == [kind |-> "document", doc |-> d, chunk |-> NoChunk, wire |-> <<>>]
HeldChunk(c) == [kind |-> "chunk", doc |-> NoDoc, chunk |-> c, wire |-> <<>>]

DeadInst == [live |-> FALSE, proc |-> 0, path |-> <<>>, mem |-> FreshStore]

Ack(st, doc) == [st |-> st, doc |-> doc]
Note(op, path, id, res, had, prior) ==
    [op |-> op, path |-> path, id |-> id, res |-> res, had |-> had, prior |-> prior,
     closed |-> FALSE]

Live(h) == h <= Len(handles)
InstOf(h) == inst[handles[h]]
MemOf(h) == InstOf(h).mem
PathOf(h) == InstOf(h).path
Refs(i) == {h \in 1..Len(handles) : handles[h] = i}
FreeInsts == {i \in InstIds : ~inst[i].live}
Lowest(S) == CHOOSE x \in S : \A y \in S : x <= y
Without(seq, h) == [j \in 1..(Len(seq) - 1) |-> IF j < h THEN seq[j] ELSE seq[j + 1]]

\* whether the documents tree of a store holds a record under the id's key
HasRecord(store, id) ==
    DocTree \in DOMAIN store /\ as_bytes(id) \in DOMAIN store[DocTree]

Init ==
    /\ dirs = {}
    /\ disk = [pa \in DbPaths |-> FreshStore]
    /\ inst = [i \in InstIds |-> DeadInst]
    /\ handles = <<>>
    /\ acked = [pa \in DbPaths |-> [id \in Ids |-> Ack("none", NoDoc)]]
    /\ note = Note("none", <<>>, <<>>, "ok", FALSE, NoDoc)
    /\ threads = [t \in Threads |-> Idle]
    /\ applied = [id \in Ids |-> Ack("none", NoDoc)]
    /\ held = NoHeld

\* a lock that only excludes the instances of the calling process
lock_conflict_own(p, path) ==
    \E i \in InstIds : inst[i].live /\ inst[i].path = path /\ inst[i].proc = p
\* a lock that only excludes the instances of other processes
lock_conflict_others(p, path) ==
    \E i \in InstIds : inst[i].live /\ inst[i].path = path /\ inst[i].proc # p

\* sled::open takes an exclusive file lock on the store: it is refused while any
\* instance, of this process or another, has the directory open
lock_conflict(p, path) == \E i \in InstIds : inst[i].live /\ inst[i].path = path

\* init_db called in process p: [ret, dirs]; ret.val is the path opened
OpenAt(g, p, fault) ==
    IF ~g.ret.ok THEN [ret |-> Err(g.ret.err, <<>>), dirs |-> g.dirs]
    ELSE IF fault = "open" \/ lock_conflict(p, g.ret.val)
    THEN [ret |-> Err("failed to open sled db", <<>>), dirs |-> g.dirs]
    ELSE [ret |-> Ok(g.ret.val), dirs |-> g.dirs]
init_db(p, app_name, db_subdir, fault) ==
    OpenAt(get_db_path(dirs, app_name, db_subdir, fault), p, fault)

\* init_db and the Arc it returns: a new instance that recovers what is on disk
InitDb(p, app_name, db_subdir, fault) ==
    \E r \in {init_db(p, app_name, db_subdir, fault)} :
    /\ dirs' = r.dirs
    /\ IF ~r.ret.ok
       THEN UNCHANGED <<inst, handles>>
       ELSE /\ Len(handles) < MaxHandles /\ FreeInsts # {}
            /\ inst' = [inst EXCEPT ![Lowest(FreeInsts)] =
                          [live |-> TRUE, proc |-> p, path |-> r.ret.val,
                           mem |-> disk[r.ret.val]]]
            /\ handles' = Append(handles, Lowest(FreeInsts))
    /\ UNCHANGED <<disk, acked, note>>
    /\ UNCHANGED aux

\* get_db_path called on its own (as the tests do)
GetDbPath(app_name, db_subdir, fault) ==
    /\ dirs' = get_db_path(dirs, app_name, db_subdir, fault).dirs
    /\ UNCHANGED <<disk, inst, handles, acked, note>>
    /\ UNCHANGED aux

\* a clone that copies the store into an instance of its own
ArcCloneCopy(h) ==
    /\ Live(h) /\ Len(handles) < MaxHandles /\ FreeInsts # {}
    /\ inst' = [inst EXCEPT ![Lowest(FreeInsts)] = InstOf(h)]
    /\ handles' = Append(handles, Lowest(FreeInsts))
    /\ UNCHANGED <<dirs, disk, acked, note>>
    /\ UNCHANGED aux

\* Arc::clone of a handle: another reference to the same instance
ArcClone(h) ==
    /\ Live(h) /\ Len(handles) < MaxHandles
    /\ handles' = Append(handles, handles[h])
    /\ UNCHANGED <<dirs, disk, inst, acked, note>>
    /\ UNCHANGED aux

MarkClosed(paths) == IF note.path \in paths THEN [note EXCEPT !.closed = TRUE] ELSE note

\* drop of a handle; dropping the last reference closes the instance, which
\* flushes what it can and releases the lock
DropHandle(h, fault) ==
    /\ Live(h)
    /\ handles' = Without(handles, h)
    /\ IF Refs(handles[h]) = {h}
       THEN /\ inst' = [inst EXCEPT ![handles[h]] = DeadInst]
            /\ disk' = IF fault = "flush" THEN disk
                       ELSE [disk EXCEPT ![PathOf(h)] = MemOf(h)]
            /\ note' = MarkClosed({PathOf(h)})
       ELSE /\ fault = "none"
            /\ UNCHANGED <<inst, disk, note>>
    /\ UNCHANGED <<dirs, acked>>
    /\ UNCHANGED aux

\* process p stops (killed, or power lost): its instances vanish unflushed
Crash(p) ==
    LET gone == {i \in InstIds : inst[i].live /\ inst[i].proc = p} IN
    /\ gone # {}
    /\ inst' = [i \in InstIds |-> IF i \in gone THEN DeadInst ELSE inst[i]]
    /\ handles' = SelectSeq(handles, LAMBDA i : i \notin gone)
    /\ note' = MarkClosed({inst[i].path : i \in gone})
    /\ UNCHANGED <<dirs, disk, acked>>
    /\ UNCHANGED aux

\* the engine's periodic flush thread
BackgroundFlush(i) ==
    /\ inst[i].live
    /\ disk[inst[i].path] # inst[i].mem
    /\ disk' = [disk EXCEPT ![inst[i].path] = inst[i].mem]
    /\ UNCHANGED <<dirs, inst, handles, acked, note>>
    /\ UNCHANGED aux

\* what a call's flush leaves on disk: everything on success; on failure either
\* nothing new or (torn) all of it
Flushed(h, r, torn) ==
    IF r.flush = "ok" \/ (r.flush = "failed" /\ torn)
    THEN [disk EXCEPT ![PathOf(h)] = r.mem]
    ELSE disk

Outcome(r) == IF r.ret.ok THEN "ok" ELSE IF r.flush = "failed" THEN "flush_failed" ELSE "err"

\* the document visible under id through handle h (NoDoc when there is none)
DocIn(g) == IF g.ok /\ g.val.some THEN g.val.val ELSE NoDoc
VisibleDoc(h, id) == DocIn(get_document(MemOf(h), id, "none").ret)

InsertDocument(h, doc, fault, torn) ==
    /\ Live(h)
    /\ torn => fault = "flush"
    /\ \E r \in {insert_document(MemOf(h), doc, fault)} :
       /\ inst' = [inst EXCEPT ![handles[h]].mem = r.mem]
       /\ disk' = Flushed(h, r, torn)
       /\ acked' = [acked EXCEPT ![PathOf(h)][doc.id] =
                        IF r.ret.ok THEN Ack("some", doc) ELSE Ack("unknown", NoDoc)]
       /\ note' = Note("insert_document", PathOf(h), doc.id, Outcome(r),
                       HasRecord(MemOf(h), doc.id),
                       IF r.flush = "failed" THEN VisibleDoc(h, doc.id) ELSE NoDoc)
    /\ UNCHANGED <<dirs, handles>>
    /\ UNCHANGED aux

GetDocument(h, id, fault) ==
    /\ Live(h)
    /\ \E r \in {get_document(MemOf(h), id, fault)} :
       inst' = [inst EXCEPT ![handles[h]].mem = r.mem]
    /\ UNCHANGED <<dirs, disk, handles, acked, note>>
    /\ UNCHANGED aux

GetAllDocuments(h, fault) ==
    /\ Live(h)
    /\ \E r \in {get_all_documents(MemOf(h), fault)} :
       inst' = [inst EXCEPT ![handles[h]].mem = r.mem]
    /\ UNCHANGED <<dirs, disk, handles, acked, note>>
    /\ UNCHANGED aux

DeleteDocument(h, id, fault, torn) ==
    /\ Live(h)
    /\ torn => fault = "flush"
    /\ \E r \in {delete_document(MemOf(h), id, fault)} :
       /\ inst' = [inst EXCEPT ![handles[h]].mem = r.mem]
       /\ disk' = Flushed(h, r, torn)
       /\ acked' = [acked EXCEPT ![PathOf(h)][id] =
                        IF r.ret.ok THEN Ack("none", NoDoc) ELSE Ack("unknown", NoDoc)]
       /\ note' = Note("delete_document", PathOf(h), id, Outcome(r),
                       HasRecord(MemOf(h), id), NoDoc)
    /\ UNCHANGED <<dirs, handles>>
    /\ UNCHANGED aux

Next ==
    \/ \E a \in AppArgs, s \in SubArgs, f \in {"none", "create_dir"} : GetDbPath(a, s, f)
    \/ \E p \in Procs, a \in AppArgs, s \in SubArgs, f \in InitFaults : InitDb(p, a, s, f)
    \/ \E h \in HandleIds : ArcClone(h)
    \/ \E h \in HandleIds, f \in {"none", "flush"} : DropHandle(h, f)
    \/ \E p \in Procs : Crash(p)
    \/ \E i \in InstIds : BackgroundFlush(i)
    \/ \E h \in HandleIds, d \in Docs, f \in InsertFaults, t \in BOOLEAN : InsertDocument(h, d, f, t)
    \/ \E h \in HandleIds, id \in Ids, f \in GetFaults : GetDocument(h, id, f)
    \/ \E h \in HandleIds, f \in GetAllFaults : GetAllDocuments(h, f)
    \/ \E h \in HandleIds, id \in Ids, f \in DeleteFaults, t \in BOOLEAN : DeleteDocument(h, id, f, t)

Spec == Init /\ [][Next]_vars

\* a direct write through the handle into the documents tree (Tree::insert with
\* bytes of the writer's choosing, not flushed): what callers were told about a
\* document stored under that key no longer describes the store
RawInsert(h, k, v) ==
    /\ Live(h)
    /\ inst' = [inst EXCEPT ![handles[h]].mem =
                    tree_insert(open_tree(MemOf(h), DocTree), DocTree, k, v)]
    /\ acked' = [acked EXCEPT ![PathOf(h)] =
                     [id \in Ids |-> IF as_bytes(id) = k THEN Ack("unknown", NoDoc) ELSE @[id]]]
    /\ UNCHANGED <<dirs, disk, handles, note>>
    /\ UNCHANGED aux

\* the repository over a store that other code also writes into
NextRaw ==
    \/ \E p \in Procs, a \in AppArgs, s \in SubArgs, f \in InitFaults : InitDb(p, a, s, f)
    \/ \E h \in HandleIds, k \in RawKeys, v \in RawValues : RawInsert(h, k, v)
    \/ \E h \in HandleIds, d \in Docs : InsertDocument(h, d, "none", FALSE)
    \/ \E h \in HandleIds, id \in Ids, f \in GetFaults : GetDocument(h, id, f)
    \/ \E h \in HandleIds, f \in GetAllFaults : GetAllDocuments(h, f)
    \/ \E h \in HandleIds, id \in Ids : DeleteDocument(h, id, "none", FALSE)

SpecRaw == Init /\ [][NextRaw]_vars

(***************************************************************************)
(* Concurrent callers: the threads of one process, each with its own clone   *)
(* of the handle, run insert_document and delete_document statement by       *)
(* statement; the engine applies each tree.insert / tree.remove atomically.  *)
(***************************************************************************)
\* the store of test_multiple_db_instances after db1.insert(b"shared_key", ..):
\* one entry in the default tree
SharedStore == [FreshStore EXCEPT ![DefaultTree] = [k \in {<<107>>} |-> <<118>>]]
SharedPath == DbPathOf(NoArg, NoArg)

\* after init_db, an Arc::clone for each thread and the write to the default tree
InitThreads ==
    /\ dirs = create_dir_all({}, SharedPath)
    /\ disk = [pa \in DbPaths |-> FreshStore]
    /\ inst = [i \in InstIds |->
                  IF i = 1 THEN [live |-> TRUE, proc |-> 1, path |-> SharedPath,
                                 mem |-> SharedStore]
                  ELSE DeadInst]
    /\ handles = [t \in Threads |-> 1]
    /\ acked = [pa \in DbPaths |-> [id \in Ids |-> Ack("none", NoDoc)]]
    /\ note = Note("none", <<>>, <<>>, "ok", FALSE, NoDoc)
    /\ threads = [t \in Threads |-> Idle]
    /\ applied = [id \in Ids |-> Ack("none", NoDoc)]
    /\ held = NoHeld

\* thread t enters insert_document(doc): open_documents_tree, bincode::serialize
ThreadInsert(t, doc) ==
    /\ threads[t].pc = "idle"
    /\ inst' = [inst EXCEPT ![1].mem = open_documents_tree(@, "none").mem]
    /\ threads' = [threads EXCEPT ![t] = [pc |-> "write", op |-> "insert", id |-> doc.id,
                                          doc |-> doc]]
    /\ UNCHANGED <<dirs, disk, handles, acked, note, applied>>
    /\ UNCHANGED held

\* thread t enters delete_document(id): open_documents_tree
ThreadDelete(t, id) ==
    /\ threads[t].pc = "idle"
    /\ inst' = [inst EXCEPT ![1].mem = open_documents_tree(@, "none").mem]
    /\ threads' = [threads EXCEPT ![t] = [pc |-> "write", op |-> "delete", id |-> id,
                                          doc |-> NoDoc]]
    /\ UNCHANGED <<dirs, disk, handles, acked, note, applied>>
    /\ UNCHANGED held

\* thread t's tree.insert / tree.remove; when it fails the call returns Err
ThreadWrite(t, fault) ==
    /\ threads[t].pc = "write"
    /\ IF fault # "none"
       THEN /\ threads' = [threads EXCEPT ![t] = Idle]
            /\ UNCHANGED <<inst, applied>>
       ELSE /\ inst' = [inst EXCEPT ![1].mem =
                           IF threads[t].op = "insert"
                           THEN tree_insert(@, DocTree, as_bytes(threads[t].id),
                                            Serialize(threads[t].doc))
                           ELSE tree_remove(@, DocTree, as_bytes(threads[t].id))]
            /\ applied' = [applied EXCEPT ![threads[t].id] =
                              IF threads[t].op = "insert" THEN Ack("some", threads[t].doc)
                              ELSE Ack("none", NoDoc)]
            /\ threads' = [threads EXCEPT ![t].pc = "flush"]
    /\ UNCHANGED <<dirs, disk, handles, acked, note>>
    /\ UNCHANGED held

\* thread t's tree.flush, after which its call returns (Err when the flush failed)
ThreadFlush(t, fault) ==
    /\ threads[t].pc = "flush"
    /\ disk' = IF fault = "flush" THEN disk ELSE [disk EXCEPT ![inst[1].path] = inst[1].mem]
    /\ threads' = [threads EXCEPT ![t] = Idle]
    /\ UNCHANGED <<dirs, inst, handles, acked, note, applied>>
    /\ UNCHANGED held

NextThreads ==
    \/ \E t \in Threads, d \in Docs : ThreadInsert(t, d)
    \/ \E t \in Threads, id \in Ids : ThreadDelete(t, id)
    \/ \E t \in Threads, f \in {"none", "write"} : ThreadWrite(t, f)
    \/ \E t \in Threads, f \in {"none", "flush"} : ThreadFlush(t, f)

SpecThreads == InitThreads /\ [][NextThreads]_vars

(***************************************************************************)
(* Entities in the hands of a caller: built, changed, serialized and read   *)
(* back.                                                                    *)
(***************************************************************************)
\* Document::new
DocumentNew(id, a) ==
    /\ held' = HeldDoc(Document_new(id, a.name, a.file_path, a.page_count, a.now))
    /\ UNCHANGED repo

\* Document::mark_as_indexed on the document held
MarkAsIndexed ==
    /\ held.kind = "document"
    /\ held' = HeldDoc(mark_as_indexed(held.doc))
    /\ UNCHANGED repo

\* Chunk::new
ChunkNew(a) ==
    /\ held' = HeldChunk(Chunk_new(a.id, a.document_id, a.text, a.index, a.page_number))
    /\ UNCHANGED repo

\* Chunk::with_metadata on the chunk held
WithMetadata(m) ==
    /\ held.kind = "chunk"
    /\ held' = HeldChunk(with_metadata(held.chunk, m))
    /\ UNCHANGED repo

\* bincode::serialize of the entity held
Encode ==
    /\ held.kind # "none"
    /\ held' = [held EXCEPT !.wire = IF held.kind = "document" THEN Serialize(held.doc)
                                     ELSE SerializeChunk(held.chunk)]
    /\ UNCHANGED repo

\* bincode::deserialize of the bytes: the caller holds what was read
Decode ==
    /\ held.wire # <<>>
    /\ IF held.kind = "document"
       THEN /\ Deserialize(held.wire).ok
            /\ held' = [held EXCEPT !.doc = Deserialize(held.wire).doc]
       ELSE /\ DeserializeChunk(held.wire).ok
            /\ held' = [held EXCEPT !.chunk = DeserializeChunk(held.wire).chunk]
    /\ UNCHANGED repo

NextEntities ==
    \/ \E id \in Ids, a \in NewArgs : DocumentNew(id, a)
    \/ MarkAsIndexed
    \/ \E a \in ChunkArgs : ChunkNew(a)
    \/ \E m \in Metas : WithMetadata(m)
    \/ Encode
    \/ Decode

SpecEntities == Init /\ [][NextEntities]_vars

(***************************************************************************)
(* Properties.  "Returns\" is what the call returns when made in the state   *)
(* at hand: get_document(MemOf(h), id, "none").ret is the result of a       *)
(* get_document through handle h in which no engine step fails.             *)
(***************************************************************************)
Get(h, id) == get_document(MemOf(h), id, "none").ret
AckOf(h, id) == acked[PathOf(h)][id]
NumRecords(store) ==
    IF DocTree \in DOMAIN store THEN Cardinality(DOMAIN store[DocTree]) ELSE 0
LastCall(h, op, res) ==
    note.op = op /\ note.res = res /\ note.path = PathOf(h)

\* C1: once insert_document(d) has returned Ok and no other insert or delete of
\* d.id has returned since, get_document(d.id), through any handle of the store,
\* returns Ok(Some(d')) with d' equal to d in every field.
InsertThenGet ==
    \A h \in HandleIds : Live(h) =>
        \A id \in Ids : AckOf(h, id).st = "some" => Get(h, id) = Ok(Some(AckOf(h, id).doc))

\* C1 witness: an insert of an indexed document has just returned Ok and a handle
\* reads it back
InsertThenGetWitness ==
    \E h \in HandleIds :
        /\ Live(h) /\ LastCall(h, "insert_document", "ok") /\ ~note.closed
        /\ AckOf(h, note.id).doc.is_indexed
        /\ Get(h, note.id) = Ok(Some(AckOf(h, note.id).doc))

\* C2: get_document of an id with no record (never inserted, or deleted since)
\* returns Ok(None); an Err comes only from a failing engine step, never from
\* the absence.
GetAbsentIsNone ==
    \A h \in HandleIds : Live(h) =>
        \A id \in Ids :
            /\ AckOf(h, id).st = "none" => ~HasRecord(MemOf(h), id)
            /\ ~HasRecord(MemOf(h), id) =>
                   \A f \in GetFaults :
                       /\ f = "none" => get_document(MemOf(h), id, f).ret = Ok(None)
                       /\ get_document(MemOf(h), id, f).ret.ok
                              => get_document(MemOf(h), id, f).ret = Ok(None)

\* C2 witness: nothing was ever inserted or deleted, a read has opened the
\* documents tree, and get_document returns Ok(None)
GetAbsentIsNoneWitness ==
    \E h \in HandleIds :
        /\ Live(h) /\ note.op = "none" /\ DocTree \in DOMAIN MemOf(h)
        /\ \A id \in Ids : Get(h, id) = Ok(None)

\* C3: after delete_document(id) has returned Ok, get_document(id) returns
\* Ok(None) until the id is inserted again; and delete_document of an id with no
\* record returns Ok(()).
DeleteThenGet ==
    \A h \in HandleIds : Live(h) =>
        /\ LastCall(h, "delete_document", "ok") => Get(h, note.id) = Ok(None)
        /\ \A id \in Ids :
              /\ get_document(delete_document(MemOf(h), id, "none").mem, id, "none").ret
                     = Ok(None)
              /\ ~HasRecord(MemOf(h), id)
                     => delete_document(MemOf(h), id, "none").ret = Ok(<<>>)

\* C3 witness: a delete of a stored record has returned Ok while the other id is
\* still stored
DeleteThenGetWitness ==
    \E h \in HandleIds :
        /\ Live(h) /\ LastCall(h, "delete_document", "ok") /\ note.had
        /\ Get(h, note.id) = Ok(None)
        /\ \E id \in Ids : AckOf(h, id).st = "some"

\* C4: insert_document of an id that already has a record replaces the record:
\* get_document returns the new document in every field, and the tree still holds
\* exactly one record for the id.
InsertOverwrites ==
    \A h \in HandleIds : Live(h) =>
        /\ LastCall(h, "insert_document", "ok") /\ note.had =>
              /\ Get(h, note.id) = Ok(Some(AckOf(h, note.id).doc))
              /\ Cardinality({k \in DOMAIN MemOf(h)[DocTree] :
                                Deserialize(MemOf(h)[DocTree][k]).doc.id = note.id}) = 1
        /\ \A d \in Docs : HasRecord(MemOf(h), d.id) =>
              /\ get_document(insert_document(MemOf(h), d, "none").mem, d.id, "none").ret
                     = Ok(Some(d))
              /\ NumRecords(insert_document(MemOf(h), d, "none").mem) = NumRecords(MemOf(h))

\* C4 witness: an insert over an existing record has returned Ok and the new
\* document is what get_document returns
InsertOverwritesWitness ==
    \E h \in HandleIds :
        /\ Live(h) /\ LastCall(h, "insert_document", "ok") /\ note.had /\ ~note.closed
        /\ Get(h, note.id) = Ok(Some(AckOf(h, note.id).doc))

IdsOf(docs) == {docs[i].id : i \in 1..Len(docs)}
StoredIds(h) == {id \in Ids : AckOf(h, id).st = "some"}

\* C5: get_all_documents returns exactly one entity per record of the documents
\* tree; when every id's last insert/delete returned Ok, the ids returned are the
\* ids inserted and not deleted since, each once.
GetAllMatches ==
    \A h \in HandleIds : Live(h) =>
        /\ get_all_documents(MemOf(h), "none").ret.ok
        /\ Len(get_all_documents(MemOf(h), "none").ret.val) = NumRecords(MemOf(h))
        /\ (\A id \in Ids : AckOf(h, id).st # "unknown") =>
              /\ IdsOf(get_all_documents(MemOf(h), "none").ret.val) = StoredIds(h)
              /\ Len(get_all_documents(MemOf(h), "none").ret.val) = Cardinality(StoredIds(h))

\* C5 witness: both ids are stored and get_all_documents returns two documents
GetAllMatchesWitness ==
    \E h \in HandleIds :
        /\ Live(h) /\ StoredIds(h) = Ids
        /\ Len(get_all_documents(MemOf(h), "none").ret.val) = 2

\* C6: two handles of one process on the same store (Arc clones) see each
\* other's writes at once: they read the same, and what they read is the last
\* acknowledged write.
SharedHandlesAgree ==
    \A a \in HandleIds, b \in HandleIds :
        (Live(a) /\ Live(b) /\ a # b /\ InstOf(a).proc = InstOf(b).proc /\ PathOf(a) = PathOf(b)) =>
            \A id \in Ids :
                /\ Get(a, id) = Get(b, id)
                /\ AckOf(a, id).st = "some" => Get(b, id) = Ok(Some(AckOf(a, id).doc))
                /\ AckOf(a, id).st = "none" => Get(b, id) = Ok(None)

\* C6 witness: two handles are alive, an insert has just returned Ok, and both
\* read the inserted document
SharedHandlesAgreeWitness ==
    /\ Len(handles) = 2 /\ LastCall(1, "insert_document", "ok") /\ ~note.closed
    /\ Get(1, note.id) = Ok(Some(AckOf(1, note.id).doc))
    /\ Get(2, note.id) = Ok(Some(AckOf(1, note.id).doc))

\* what get_document returns from a store reopened on what is on disk
DiskGet(pa, id) == get_document(disk[pa], id, "none").ret

\* C7: a write that was acknowledged is on disk: for every id whose last
\* insert/delete returned Ok, the disk holds the inserted record, or none after a
\* delete, at every moment from the return on; so a store reopened after the
\* handles were dropped or the process stopped returns it.
AckedIsDurable ==
    /\ \A pa \in DbPaths, id \in Ids :
          /\ acked[pa][id].st = "some" => DiskGet(pa, id) = Ok(Some(acked[pa][id].doc))
          /\ acked[pa][id].st = "none" => DiskGet(pa, id) = Ok(None)
    /\ \A h \in HandleIds : (Live(h) /\ note.closed) =>
          \A id \in Ids :
              /\ AckOf(h, id).st = "some" => Get(h, id) = Ok(Some(AckOf(h, id).doc))
              /\ AckOf(h, id).st = "none" => Get(h, id) = Ok(None)

\* C7 witness: an insert returned Ok, the store was closed, and a handle of the
\* reopened store reads the document
AckedIsDurableWitness ==
    \E h \in HandleIds :
        /\ Live(h) /\ LastCall(h, "insert_document", "ok") /\ note.closed
        /\ Get(h, note.id) = Ok(Some(AckOf(h, note.id).doc))

\* C8: after an insert that returned Err at its flush step, get_document of the id
\* returns what it returned before the insert (the prior record, or Ok(None)).
FailedInsertInvisible ==
    \A h \in HandleIds : (Live(h) /\ LastCall(h, "insert_document", "flush_failed")) =>
        Get(h, note.id) = IF note.had THEN Ok(Some(note.prior)) ELSE Ok(None)

\* C9: no two processes hold an open instance on the same directory, and init_db
\* of a directory that another process has open returns Err.
OneProcessPerStore ==
    /\ \A i \in InstIds, j \in InstIds :
          (inst[i].live /\ inst[j].live /\ inst[i].path = inst[j].path)
              => inst[i].proc = inst[j].proc
    /\ \A p \in Procs, a \in AppArgs, s \in SubArgs :
          (\E i \in InstIds : inst[i].live /\ inst[i].path = DbPathOf(a, s) /\ inst[i].proc # p)
              => init_db(p, a, s, "none").ret = Err("failed to open sled db", <<>>)

\* C9 witness: process 2 has the store open (after process 1 had written to it)
\* and init_db in process 1 is refused
OneProcessPerStoreWitness ==
    /\ \E i \in InstIds : inst[i].live /\ inst[i].proc = 2
    /\ note.op = "insert_document" /\ note.closed
    /\ ~init_db(1, NoArg, SomeArg("sled_db"), "none").ret.ok

\* C10: a process never has two instances of the same directory: init_db of a
\* directory the process already has open creates none (it returns Err), and all
\* handles of the process on the directory refer to the one instance.
OneInstancePerProcess ==
    /\ \A i \in InstIds, j \in InstIds :
          (inst[i].live /\ inst[j].live /\ inst[i].path = inst[j].path
             /\ inst[i].proc = inst[j].proc) => i = j
    /\ \A a \in HandleIds, b \in HandleIds :
          (Live(a) /\ Live(b) /\ InstOf(a).proc = InstOf(b).proc /\ PathOf(a) = PathOf(b))
              => handles[a] = handles[b]
    /\ \A p \in Procs, a \in AppArgs, s \in SubArgs :
          (\E i \in InstIds : inst[i].live /\ inst[i].path = DbPathOf(a, s) /\ inst[i].proc = p)
              => ~init_db(p, a, s, "none").ret.ok

\* C10 witness: a process holds two handles on its instance and a further init_db
\* of the same directory in that process is refused
OneInstancePerProcessWitness ==
    /\ Len(handles) = 2 /\ handles[1] = handles[2]
    /\ ~init_db(InstOf(1).proc, NoArg, NoArg, "none").ret.ok

\* whether instance i shows, under id, a record whose is_indexed is b
StoredFlag(m, id, b) ==
    HasRecord(m, id) /\ Deserialize(m[DocTree][as_bytes(id)]).doc.is_indexed = b
\* in this step the record instance i shows under id goes from indexed to not
FlagReset(i, id) ==
    /\ inst[i].live /\ inst'[i].live /\ inst'[i].mem # inst[i].mem
    /\ StoredFlag(inst[i].mem, id, TRUE) /\ StoredFlag(inst'[i].mem, id, FALSE)

\* C11 (as stated): over any sequence of operations the is_indexed of the record
\* stored for an id never goes from true back to false.
IndexedNeverReset ==
    [][\A i \in InstIds, id \in Ids : ~FlagReset(i, id)]_vars

\* C11 (amended): Document::new yields is_indexed = false and mark_as_indexed
\* yields true, also when applied again; and the is_indexed of the record an open
\* store shows for an id goes from true to false only in an insert_document of
\* that id that replaces an indexed record by a document whose is_indexed is
\* false (the record is always the document last written, never a merge).
IndexedResetOnlyByOverwrite ==
    /\ [](\A d \in Fresh :
             /\ ~d.is_indexed
             /\ mark_as_indexed(d).is_indexed
             /\ mark_as_indexed(mark_as_indexed(d)) = mark_as_indexed(d)
             /\ mark_as_indexed(d) = [d EXCEPT !.is_indexed = TRUE])
    /\ [][\A i \in InstIds, id \in Ids : FlagReset(i, id) =>
             /\ note'.op = "insert_document" /\ note'.id = id
             /\ note'.path = inst[i].path
             /\ note'.res \in {"ok", "flush_failed"}
             /\ note'.had
             /\ note'.res = "ok" => ~acked'[inst[i].path][id].doc.is_indexed]_vars

\* C11 witness: an insert_document of a newly constructed document has
\* replaced an indexed record (which is still the one on disk, the call's flush
\* having failed), and the store now shows the id as not indexed
IndexedResetOnlyByOverwriteWitness ==
    \E h \in HandleIds :
        /\ Live(h) /\ LastCall(h, "insert_document", "flush_failed") /\ ~note.closed
        /\ note.had /\ note.prior.is_indexed
        /\ StoredFlag(disk[PathOf(h)], note.id, TRUE)
        /\ StoredFlag(MemOf(h), note.id, FALSE)

(***************************************************************************)
(* Records that do not decode.                                              *)
(***************************************************************************)
\* the documents tree of a store as the repository sees it
TreeOf(m) == open_tree(m, DocTree)[DocTree]
\* the keys whose stored bytes are not a Document
BadKeys(m) == {k \in DOMAIN TreeOf(m) : ~Deserialize(TreeOf(m)[k]).ok}
\* the entries the listing loop visits before the first one that does not decode
BeforeFirstBad(m) == {k \in DOMAIN TreeOf(m) : LexLess(k, LeastKey(BadKeys(m)))}
GetAll(h) == get_all_documents(MemOf(h), "none").ret

\* C12: when a record of the documents tree does not decode, get_all_documents
\* returns Err("desearialize error") and no entity, having stopped at the first
\* such entry in iteration order; when every record decodes it returns them all.
GetAllAbortsOnBad ==
    \A h \in HandleIds : Live(h) =>
        /\ BadKeys(MemOf(h)) # {} =>
              /\ GetAll(h) = Err("desearialize error", <<>>)
              /\ ~CollectDocs(TreeOf(MemOf(h)), SortedKeys(DOMAIN TreeOf(MemOf(h))), <<>>).ok
              /\ Len(CollectDocs(TreeOf(MemOf(h)), SortedKeys(DOMAIN TreeOf(MemOf(h))), <<>>).out)
                     = Cardinality(BeforeFirstBad(MemOf(h)))
        /\ BadKeys(MemOf(h)) = {} =>
              /\ GetAll(h).ok
              /\ Len(GetAll(h).val) = NumRecords(MemOf(h))

\* C12 witness: the first record in iteration order is a document, the second
\* does not decode, and get_all_documents returns the error
GetAllAbortsOnBadWitness ==
    \E h \in HandleIds :
        /\ Live(h) /\ NumRecords(MemOf(h)) = 2
        /\ Cardinality(BadKeys(MemOf(h))) = 1 /\ Cardinality(BeforeFirstBad(MemOf(h))) = 1
        /\ GetAll(h) = Err("desearialize error", <<>>)

\* C13: when no engine step fails, get_document returns Ok(None) exactly when
\* the id has no record, Err("deseralization error") when the record's bytes do
\* not decode and Ok(Some(_)) when they do; when the tree open or the lookup
\* fails it returns that step's Err, never Ok.
GetDistinguishes ==
    \A h \in HandleIds : Live(h) =>
        \A id \in Ids :
            /\ (Get(h, id) = Ok(None)) <=> ~HasRecord(MemOf(h), id)
            /\ (HasRecord(MemOf(h), id) /\ as_bytes(id) \in BadKeys(MemOf(h)))
                   => Get(h, id) = Err("deseralization error", None)
            /\ (HasRecord(MemOf(h), id) /\ as_bytes(id) \notin BadKeys(MemOf(h)))
                   => Get(h, id) = Ok(Some(Deserialize(MemOf(h)[DocTree][as_bytes(id)]).doc))
            /\ get_document(MemOf(h), id, "open_tree").ret
                   = Err("failed to open documents tree", None)
            /\ get_document(MemOf(h), id, "get").ret = Err("sled get error", None)

\* C13 witness: one id has a record that does not decode and get_document
\* returns the deserialization error, the other has none and gets Ok(None)
GetDistinguishesWitness ==
    \E h \in HandleIds, a \in Ids, b \in Ids :
        /\ Live(h)
        /\ HasRecord(MemOf(h), a) /\ Get(h, a) = Err("deseralization error", None)
        /\ ~HasRecord(MemOf(h), b) /\ Get(h, b) = Ok(None)

(***************************************************************************)
(* Concurrent writers.                                                      *)
(***************************************************************************)
\* what get_document returns through any handle of instance i
GetIn(i, id) == get_document(inst[i].mem, id, "none").ret
\* what get_document returns for an id whose last applied write is a
ResultOf(a) == IF a.st = "some" THEN Ok(Some(a.doc)) ELSE Ok(None)

\* C14: while threads run insert_document and delete_document concurrently, and
\* after all have returned, get_document(id) returns the outcome of the write the
\* engine applied last to that id: the whole document of one insert, or Ok(None);
\* never a value that is not one of the documents inserted.
LastWriterWins ==
    \A i \in {handles[h] : h \in 1..Len(handles)} :
        \A id \in Ids :
            /\ GetIn(i, id) = ResultOf(applied[id])
            /\ ResultOf(applied[id])
                   \in {Ok(None)} \cup {Ok(Some(d)) : d \in {x \in Docs : x.id = id}}

\* C14 witness: two threads are inside calls on the same id, both have written,
\* the one applied last was an insert over the other's record, and every handle
\* reads that document
LastWriterWinsWitness ==
    /\ threads[1].pc = "flush" /\ threads[2].pc = "flush"
    /\ threads[1].id = threads[2].id /\ threads[1].op = "insert" /\ threads[2].op = "insert"
    /\ threads[1].doc # threads[2].doc
    /\ applied[threads[1].id] = Ack("some", threads[1].doc)
    /\ \A h \in HandleIds : Live(h) => Get(h, threads[1].id) = Ok(Some(threads[1].doc))

\* the keys of a tree of store m whose value differs in store n
Changed(m, n, name) ==
    {k \in DOMAIN m[name] \cup DOMAIN n[name] :
        \/ (k \in DOMAIN m[name]) # (k \in DOMAIN n[name])
        \/ (k \in DOMAIN m[name] /\ k \in DOMAIN n[name] /\ m[name][k] # n[name][k])}
\* the key thread t writes in this step, if it writes
WrittenBy(t) ==
    IF threads[t].pc = "write" /\ threads'[t].pc = "flush" THEN {as_bytes(threads[t].id)}
    ELSE {}

\* C20: a step of insert_document or delete_document, whatever the other
\* threads are doing, changes in the store the handles show at most the record
\* under the call's key in the documents tree: every other record of that tree
\* and every other tree keep their content, and no tree other than the documents
\* tree is created; on disk, a record under another key either stays or becomes
\* what the store already showed (the flush writes out what was pending).
WriteFrame ==
    [][/\ Changed(open_tree(inst[1].mem, DocTree), inst'[1].mem, DocTree)
              \subseteq UNION {WrittenBy(t) : t \in Threads}
       /\ Cardinality(UNION {WrittenBy(t) : t \in Threads}) <= 1
       /\ DOMAIN inst'[1].mem = DOMAIN inst[1].mem \cup {DocTree}
       /\ \A name \in DOMAIN inst[1].mem \ {DocTree} :
              inst'[1].mem[name] = inst[1].mem[name]
       /\ disk'[SharedPath] \in {disk[SharedPath], inst[1].mem}]_vars

\* C20 witness: a thread has written its record while another thread's call on
\* the other key is under way, the other key's record is still the one stored
\* before, and the default tree still holds its entry
WriteFrameWitness ==
    \E t \in Threads, u \in Threads :
        /\ threads[t].pc = "flush" /\ threads[t].op = "insert"
        /\ threads[u].pc = "write" /\ threads[u].id # threads[t].id
        /\ Get(1, threads[t].id) = Ok(Some(threads[t].doc))
        /\ applied[threads[u].id].st = "some"
        /\ Get(1, threads[u].id) = ResultOf(applied[threads[u].id])
        /\ inst[1].mem[DefaultTree] = SharedStore[DefaultTree]

(***************************************************************************)
(* Failing steps.                                                           *)
(***************************************************************************)
\* the store after a direct write of v under k into the documents tree
RawStore(m, k, v) == tree_insert(open_tree(m, DocTree), DocTree, k, v)
\* a failed call: the step's error, the store as the steps before it left it
Failed(e, v, m, fl) == [ret |-> Err(e, v), mem |-> m, flush |-> fl]
FailedRead(e, v, m) == [ret |-> Err(e, v), mem |-> m]

\* C15: a call in which a step fails returns the Err of that step: it does not
\* return Ok, it does not run the steps after the failing one, and its effect on
\* the store is that of the steps before it (none is undone, none repeated).
\* The steps: create_dir_all and sled::open in init_db; open_tree, serialize,
\* tree.insert, tree.flush in insert_document; open_tree, tree.get, deserialize
\* in get_document; open_tree, tree.iter, deserialize in get_all_documents;
\* open_tree, tree.remove, tree.flush in delete_document.
FailuresSurface ==
    /\ \A p \in Procs, a \in AppArgs, s \in SubArgs :
          /\ init_db(p, a, s, "create_dir")
                 = [ret |-> Err("failed to create db dir", <<>>), dirs |-> dirs]
          /\ init_db(p, a, s, "open")
                 = [ret |-> Err("failed to open sled db", <<>>),
                    dirs |-> create_dir_all(dirs, DbPathOf(a, s))]
    /\ \A i \in {handles[h] : h \in 1..Len(handles)} :
          /\ \A d \in Docs :
                /\ insert_document(inst[i].mem, d, "open_tree")
                       = Failed("failed to open documents tree", <<>>, inst[i].mem, "none")
                /\ insert_document(inst[i].mem, d, "serialize")
                       = Failed("serialize error", <<>>, open_tree(inst[i].mem, DocTree), "none")
                /\ insert_document(inst[i].mem, d, "insert")
                       = Failed("sled insert error", <<>>, open_tree(inst[i].mem, DocTree), "none")
                /\ insert_document(inst[i].mem, d, "flush")
                       = Failed("flush error", <<>>,
                                RawStore(inst[i].mem, as_bytes(d.id), Serialize(d)), "failed")
          /\ \A id \in Ids :
                /\ get_document(inst[i].mem, id, "open_tree")
                       = FailedRead("failed to open documents tree", None, inst[i].mem)
                /\ get_document(inst[i].mem, id, "get")
                       = FailedRead("sled get error", None, open_tree(inst[i].mem, DocTree))
                /\ delete_document(inst[i].mem, id, "open_tree")
                       = Failed("failed to open documents tree", <<>>, inst[i].mem, "none")
                /\ delete_document(inst[i].mem, id, "remove")
                       = Failed("sled remove error", <<>>, open_tree(inst[i].mem, DocTree), "none")
                /\ delete_document(inst[i].mem, id, "flush")
                       = Failed("flush error", <<>>,
                                tree_remove(open_tree(inst[i].mem, DocTree), DocTree, as_bytes(id)),
                                "failed")
                /\ \A v \in {x \in RawValues : ~Deserialize(x).ok} :
                      /\ get_document(RawStore(inst[i].mem, as_bytes(id), v), id, "none")
                             = FailedRead("deseralization error", None,
                                          RawStore(inst[i].mem, as_bytes(id), v))
                      /\ get_all_documents(RawStore(inst[i].mem, as_bytes(id), v), "none")
                             = FailedRead("desearialize error", <<>>,
                                          RawStore(inst[i].mem, as_bytes(id), v))
          /\ get_all_documents(inst[i].mem, "open_tree")
                 = FailedRead("failed to open documents tree", <<>>, inst[i].mem)
          /\ get_all_documents(inst[i].mem, "iter")
                 = FailedRead("sled iter error", <<>>, open_tree(inst[i].mem, DocTree))
    /\ (note.op # "none" /\ note.res # "ok" /\ ~note.closed)
           => acked[note.path][note.id].st = "unknown"

\* C15 witness: a delete_document of a stored record whose flush failed has just
\* returned Err, with the record removed from the store the handle shows
FailuresSurfaceWitness ==
    \E h \in HandleIds :
        /\ Live(h) /\ LastCall(h, "delete_document", "flush_failed") /\ note.had
        /\ ~note.closed /\ AckOf(h, note.id).st = "unknown"
        /\ ~HasRecord(MemOf(h), note.id)

(***************************************************************************)
(* The storage path.                                                        *)
(***************************************************************************)
\* argument values for get_db_path beyond those init_db is called with
PathAppArgs == {NoArg, SomeArg("test_app")}
PathSubArgs == {NoArg, SomeArg("sled_db"), SomeArg("test_db")}
\* a first call in the state at hand, and a second call after it
FirstPath(a, s) == get_db_path(dirs, a, s, "none")
SecondPath(a, s) == get_db_path(FirstPath(a, s).dirs, a, s, "none")

\* C16: get_db_path called twice with the same arguments returns Ok with the
\* same path both times, whether or not the directory existed before the first
\* call; the directory exists after each call and the second call creates
\* nothing; with db_subdir None the path ends in "sled_db".
GetDbPathIdempotent ==
    \A a \in PathAppArgs, s \in PathSubArgs :
        /\ FirstPath(a, s).ret.ok
        /\ SecondPath(a, s).ret = FirstPath(a, s).ret
        /\ FirstPath(a, s).ret.val \in FirstPath(a, s).dirs
        /\ SecondPath(a, s).dirs = FirstPath(a, s).dirs
        /\ dirs \subseteq FirstPath(a, s).dirs
        /\ ~s.some => FirstPath(a, s).ret.val[Len(FirstPath(a, s).ret.val)] = "sled_db"
        /\ s.some => FirstPath(a, s).ret.val[Len(FirstPath(a, s).ret.val)] = s.val

\* C16 witness: the default directory has been created, no store is open, and a
\* further get_db_path returns the same path and leaves the directories as they are
GetDbPathIdempotentWitness ==
    /\ DbPathOf(NoArg, NoArg) \in dirs /\ handles = <<>>
    /\ FirstPath(NoArg, NoArg) = [ret |-> Ok(DbPathOf(NoArg, NoArg)), dirs |-> dirs]

(***************************************************************************)
(* Entities.                                                                *)
(***************************************************************************)
\* C17: the char_count of a chunk built by Chunk::new is the number of Unicode
\* scalar values of its text (which differs from the number of bytes when a
\* character takes more than one byte), and with_metadata changes neither
\* char_count nor text, so the equality holds for every chunk a caller holds.
CharCountIsScalars ==
    /\ \A a \in ChunkArgs :
          /\ Chunk_new(a.id, a.document_id, a.text, a.index, a.page_number).char_count
                 = Len(a.text)
          /\ Chunk_new(a.id, a.document_id, a.text, a.index, a.page_number).text = a.text
    /\ held.kind = "chunk" =>
          /\ held.chunk.char_count = Len(held.chunk.text)
          /\ \A m \in Metas :
                /\ with_metadata(held.chunk, m).char_count = held.chunk.char_count
                /\ with_metadata(held.chunk, m).text = held.chunk.text
                /\ with_metadata(held.chunk, m).metadata = SomeMeta(m)

\* C17 witness: a chunk with metadata whose text "a😀" is two scalar values in
\* five bytes, with char_count 2
CharCountIsScalarsWitness ==
    /\ held.kind = "chunk" /\ held.chunk.metadata.some
    /\ held.chunk.text = <<97, 128512>>
    /\ bytes_len(held.chunk.text) = 5 /\ held.chunk.char_count = 2

\* C18: deserializing the serialization of the Document or Chunk a caller
\* holds succeeds and yields a value equal to it in every field, for chunks
\* with and without metadata; bytes a caller has serialized decode to the value
\* it holds.
RoundTrip ==
    /\ held.kind = "document" =>
          /\ Deserialize(Serialize(held.doc)) = [ok |-> TRUE, doc |-> held.doc]
          /\ held.wire # <<>> => Deserialize(held.wire) = [ok |-> TRUE, doc |-> held.doc]
    /\ held.kind = "chunk" =>
          /\ DeserializeChunk(SerializeChunk(held.chunk)) = [ok |-> TRUE, chunk |-> held.chunk]
          /\ held.wire # <<>> =>
                 DeserializeChunk(held.wire) = [ok |-> TRUE, chunk |-> held.chunk]

\* C18 witness: a chunk without metadata and with a multi-byte text has been
\* serialized and read back, and is what it was
RoundTripWitness ==
    /\ held.kind = "chunk" /\ ~held.chunk.metadata.some /\ held.wire # <<>>
    /\ held.chunk.text = <<8364, 97>>
    /\ held.chunk = Chunk_new(<<99>>, <<241>>, <<8364, 97>>, 1, 1)
    /\ DeserializeChunk(held.wire).chunk = held.chunk

(***************************************************************************)
(* Keys and ids.                                                            *)
(***************************************************************************)
\* every record of the documents tree of store m is a Document stored under the
\* bytes of its own id
KeysAreIds(m) ==
    \A k \in DOMAIN TreeOf(m) :
        /\ Deserialize(TreeOf(m)[k]).ok
        /\ as_bytes(Deserialize(TreeOf(m)[k]).doc.id) = k
\* the documents a listing of store m returns
Listed(m) == get_all_documents(m, "none").ret.val

\* C19: in every state reached through the repository calls, in the store a
\* handle shows and in what is on disk, every record of the documents tree
\* decodes to a Document whose id is the record's key; get_document(id) returns
\* no document with another id, and get_all_documents returns no id twice.
KeyIsId ==
    /\ \A pa \in DbPaths : KeysAreIds(disk[pa])
    /\ \A i \in {handles[h] : h \in 1..Len(handles)} :
          /\ KeysAreIds(inst[i].mem)
          /\ \A id \in Ids :
                (GetIn(i, id).ok /\ GetIn(i, id).val.some) => GetIn(i, id).val.val.id = id
          /\ get_all_documents(inst[i].mem, "none").ret.ok
          /\ \A x \in 1..Len(Listed(inst[i].mem)), y \in 1..Len(Listed(inst[i].mem)) :
                Listed(inst[i].mem)[x].id = Listed(inst[i].mem)[y].id => x = y

\* C19 witness: both ids are stored, one of them overwritten and the other
\* re-inserted after a delete, and the listing returns the two ids
KeyIsIdWitness ==
    \E h \in HandleIds :
        /\ Live(h) /\ LastCall(h, "insert_document", "ok") /\ note.had
        /\ NumRecords(MemOf(h)) = 2 /\ NumRecords(disk[PathOf(h)]) = 2
        /\ {Listed(MemOf(h))[x].id : x \in 1..Len(Listed(MemOf(h)))} = Ids

(***************************************************************************)
(* Reads.                                                                   *)
(***************************************************************************)
\* the read calls: get_document of an id and get_all_documents, each with the
\* engine step that fails in it ("none": no step fails)
Reads ==
    [op : {"get_document"}, id : Ids, fault : GetFaults]
        \cup [op : {"get_all_documents"}, id : {<<>>}, fault : GetAllFaults]
\* read q made on store m: [ret, mem]
ReadOn(m, q) ==
    IF q.op = "get_document" THEN get_document(m, q.id, q.fault)
    ELSE get_all_documents(m, q.fault)
\* store n holds what store m holds: the same records in the documents tree and
\* the same other trees (the documents tree itself may have been created, empty)
SameRecords(m, n) ==
    /\ TreeOf(n) = TreeOf(m)
    /\ DOMAIN n \in {DOMAIN m, DOMAIN m \cup {DocTree}}
    /\ \A t \in DOMAIN m : n[t] = m[t]
\* a step in which a read call is made
ReadStep ==
    \/ \E h \in HandleIds, id \in Ids, f \in GetFaults : GetDocument(h, id, f)
    \/ \E h \in HandleIds, f \in GetAllFaults : GetAllDocuments(h, f)

\* C21: get_document and get_all_documents, returning Ok or Err, leave the
\* records of the documents tree as they were (in the store of every instance
\* and on disk); so a read made after another read, with no mutating call
\* between them and the same engine steps failing, returns what it would have
\* returned before it.
ReadsAreReadOnly ==
    /\ [](\A i \in {handles[h] : h \in 1..Len(handles)} :
            \A r \in Reads :
                /\ SameRecords(inst[i].mem, ReadOn(inst[i].mem, r).mem)
                /\ \A q \in Reads :
                      ReadOn(ReadOn(inst[i].mem, r).mem, q).ret = ReadOn(inst[i].mem, q).ret)
    /\ [][ReadStep =>
             /\ disk' = disk
             /\ \A i \in InstIds :
                   /\ inst'[i].live = inst[i].live
                   /\ SameRecords(inst[i].mem, inst'[i].mem)
                   /\ \A q \in Reads :
                         ReadOn(inst'[i].mem, q).ret = ReadOn(inst[i].mem, q).ret]_vars

\* C21 witness: a store with a document under one id and bytes that do not
\* decode under the other, on which get_document returns Ok(Some(_)) for the
\* first and Err for the second and get_all_documents returns Err, each read
\* leaving the store of this very state
ReadsAreReadOnlyWitness ==
    \E h \in HandleIds, a \in Ids, b \in Ids :
        /\ Live(h) /\ NumRecords(MemOf(h)) = 2
        /\ Get(h, a).ok /\ Get(h, a).val.some
        /\ Get(h, b) = Err("deseralization error", None)
        /\ GetAll(h) = Err("desearialize error", <<>>)
        /\ \A r \in Reads : ReadOn(MemOf(h), r).mem = MemOf(h)

(***************************************************************************)
(* Inserts that fail before the write.                                      *)
(***************************************************************************)
\* the steps of insert_document that come before tree.insert
BeforeWrite == {"open_tree", "serialize"}

\* C22: when the documents tree cannot be opened or the serialization of the
\* document fails, insert_document returns that step's Err and has called
\* neither tree.insert nor tree.flush: the records of the store the handle
\* shows, of every other instance and of the disk are those before the call,
\* and the call is not recorded as acknowledged.  (A call that changes nothing
\* of what it can change, the instances and what is recorded about the calls,
\* is a stuttering step.)
FailedBeforeWrite ==
    /\ [](\A i \in {handles[h] : h \in 1..Len(handles)} :
            \A d \in Docs :
                /\ insert_document(inst[i].mem, d, "open_tree")
                       = Failed("failed to open documents tree", <<>>, inst[i].mem, "none")
                /\ insert_document(inst[i].mem, d, "serialize").ret
                       = Err("serialize error", <<>>)
                /\ insert_document(inst[i].mem, d, "serialize").flush = "none"
                /\ SameRecords(inst[i].mem, insert_document(inst[i].mem, d, "serialize").mem))
    /\ [][(/\ note'.op = "insert_document" /\ ~note'.closed
            /\ handles' = handles /\ dirs' = dirs
            /\ (note' # note \/ acked' # acked \/ inst' # inst)) =>
             \A h \in 1..Len(handles) :
                 note'.path = PathOf(h) =>
                     \A d \in {x \in Docs : x.id = note'.id}, f \in BeforeWrite :
                         InsertDocument(h, d, f, FALSE) =>
                             /\ disk' = disk
                             /\ \A i \in InstIds :
                                   /\ inst'[i].live = inst[i].live
                                   /\ SameRecords(inst[i].mem, inst'[i].mem)
                             /\ note'.res = "err"
                             /\ acked'[PathOf(h)][d.id].st = "unknown"]_vars

\* C22 witness: an insert_document of an id that had no record has returned Err
\* without a flush; the store holds the one record it held, that record is on
\* disk, the id has no record, and an insert whose serialization fails leaves
\* the store of this very state
FailedBeforeWriteWitness ==
    \E h \in HandleIds, d \in Docs :
        /\ Live(h) /\ LastCall(h, "insert_document", "err") /\ ~note.closed
        /\ note.id = d.id /\ ~note.had /\ ~HasRecord(MemOf(h), d.id)
        /\ NumRecords(MemOf(h)) = 1 /\ disk[PathOf(h)] = MemOf(h)
        /\ AckOf(h, d.id).st = "unknown"
        /\ insert_document(MemOf(h), d, "serialize").mem = MemOf(h)

====
